---- MODULE Spec2Model ----
(***************************************************************************)
(* Model of the resume parser service (src/main.py): the /parse handler    *)
(* parse_resume, the extractor extract_text_from_bytes, the inference       *)
(* client call_groq_api and the best-effort insert into the resumes table.  *)
(*                                                                          *)
(* Texts are sequences of one-character strings, byte strings are sequences *)
(* of byte symbols, JSON values are records tagged by "kind".  The blob      *)
(* store, the document parsers (pdfplumber, python-docx), the inference      *)
(* endpoint and the database are the environment: their replies are drawn    *)
(* from small sets.                                                         *)
(***************************************************************************)
EXTENDS Integers, Sequences, FiniteSets, TLC

(* ------------------------------ bounds --------------------------------- *)

\* number of request slots (runs of parse_resume) of the model
NumRuns == 2
\* longest byte string a transfer delivers
MaxLen == 2
\* most pages of a PDF, most paragraphs of a Word document
MaxPages == 2

Runs == 1..NumRuns

(* ------------------------------ values --------------------------------- *)

None == "None"
Missing == "Missing"

PDF_MIME == "application/pdf"
DOCX_MIME == "application/vnd.openxmlformats-officedocument.wordprocessingml.document"
DOC_MIME == "application/msword"

NL == "\n"
Whitespace == {" ", NL}
\* the characters of the texts the parsers deliver
Char == {"a", " "}
\* the byte symbols of a download: two that decode to a character and one
\* that is no valid UTF-8 sequence
BadByte == "xFF"
Byte == Char \cup {BadByte}

SeqsUpTo(S, n) == UNION {[1..k -> S] : k \in 0..n}

(* ----------------------- text helpers (str methods) -------------------- *)

RECURSIVE LStrip(_)
LStrip(s) ==
    IF s = <<>> THEN <<>>
    ELSE IF Head(s) \in Whitespace THEN LStrip(Tail(s))
    ELSE s

RECURSIVE RStrip(_)
RStrip(s) ==
    IF s = <<>> THEN <<>>
    ELSE IF s[Len(s)] \in Whitespace THEN RStrip(SubSeq(s, 1, Len(s) - 1))
    ELSE s

\* str.strip()
Strip(s) == RStrip(LStrip(s))

\* bytes.decode(errors="ignore"): invalid sequences are dropped
IsValidByte(b) == b \in Char
Decode(data) == SelectSeq(data, IsValidByte)

\* text += p.extract_text() or ""   over the pages in order
RECURSIVE ConcatPages(_)
ConcatPages(pages) ==
    IF pages = <<>> THEN <<>>
    ELSE (IF Head(pages) = <<None>> THEN <<>> ELSE Head(pages))
         \o ConcatPages(Tail(pages))

\* "\n".join(parts)
RECURSIVE JoinNL(_)
JoinNL(parts) ==
    IF parts = <<>> THEN <<>>
    ELSE IF Len(parts) = 1 THEN Head(parts)
    ELSE Head(parts) \o <<NL>> \o JoinNL(Tail(parts))

IsNonEmpty(t) == t # <<>>

(* ----------------------------- extractor ------------------------------- *)

\* What the parsing library makes of the downloaded bytes: it rejects them
\* (ok = FALSE, the library raises) or reads a list of items, the texts of the
\* pages (extract_text() gives a text or None) or of the paragraphs.
PageTexts == {<<>>, <<"a">>, <<" ">>, <<None>>}
ParaTexts == {<<>>, <<"a">>, <<" ">>}
Rejected == [ok |-> FALSE, items |-> <<>>]
PdfReadings == {Rejected} \cup {[ok |-> TRUE, items |-> p] : p \in SeqsUpTo(PageTexts, MaxPages)}
DocxReadings == {Rejected} \cup {[ok |-> TRUE, items |-> p] : p \in SeqsUpTo(ParaTexts, MaxPages)}

extract_text_from_pdf_bytes(pages) == Strip(ConcatPages(pages))

extract_text_from_docx_bytes(paragraphs) == Strip(JoinNL(SelectSeq(paragraphs, IsNonEmpty)))

\* Branch that knows one Word-document type only
Branch_DocxOnly(mime_type) ==
    IF mime_type = PDF_MIME THEN "pdf"
    ELSE IF mime_type = DOCX_MIME THEN "docx"
    ELSE "plain"

\* the branch extract_text_from_bytes takes: decided by the hint alone
Branch(mime_type) ==
    IF mime_type = PDF_MIME THEN "pdf"
    ELSE IF mime_type \in {DOCX_MIME, DOC_MIME} THEN "docx"
    ELSE "plain"

\* the readings a library can give for `data` under the branch of mime_type:
\* an empty file is no PDF and no Word document; the fallback uses no library
Readings(data, mime_type) ==
    CASE Branch(mime_type) = "pdf" -> IF data = <<>> THEN {Rejected} ELSE PdfReadings
      [] Branch(mime_type) = "docx" -> IF data = <<>> THEN {Rejected} ELSE DocxReadings
      [] OTHER -> {[ok |-> TRUE, items |-> <<>>]}

extract_text_from_bytes(data, mime_type, reading) ==
    CASE Branch(mime_type) = "pdf" -> extract_text_from_pdf_bytes(reading.items)
      [] Branch(mime_type) = "docx" -> extract_text_from_docx_bytes(reading.items)
      [] OTHER -> Decode(data)

(* ------------------------------- JSON ---------------------------------- *)

Fields == {"name", "email", "phone", "skills", "experience", "education"}
ScalarFields == {"name", "email", "phone"}
ListFields == {"skills", "experience", "education"}

JNull == [kind |-> "null"]
JStr(x) == [kind |-> "str", s |-> x]
JNum(x) == [kind |-> "num", n |-> x]
JList(x) == [kind |-> "list", items |-> x]
JDict(x) == [kind |-> "dict", d |-> x]
JError == [kind |-> "JSONDecodeError"]

FullRecord ==
    JDict([name |-> JStr("Ann"), email |-> JStr("ann@x.org"), phone |-> JStr("555"),
           skills |-> JList(<<JStr("tla")>>), experience |-> JList(<<>>),
           education |-> JList(<<JStr("msc")>>)])

\* the message contents the inference endpoint is modelled to send
C_FULL == "{\"name\": \"Ann\", \"email\": \"ann@x.org\", \"phone\": \"555\", \"skills\": [\"tla\"], \"experience\": [], \"education\": [\"msc\"]}"
C_PARTIAL == "{\"name\": \"Ann\"}"
C_EMPTY_OBJECT == "{}"
C_BAD_FIELD == "{\"skills\": \"tla\"}"
C_ARRAY == "[\"Ann\"]"
C_STRING == "\"Ann\""
C_NUMBER == "7"
C_NULL == "null"
C_TEXT == "Here is the resume: Ann"
C_BLANK == ""

Contents == {C_FULL, C_PARTIAL, C_EMPTY_OBJECT, C_BAD_FIELD, C_ARRAY, C_STRING,
             C_NUMBER, C_NULL, C_TEXT, C_BLANK}

\* json.loads(content) on the contents above; JError stands for the raise
JsonLoads(content) ==
    CASE content = C_FULL -> FullRecord
      [] content = C_PARTIAL -> JDict([name |-> JStr("Ann")])
      [] content = C_EMPTY_OBJECT -> JDict([k \in {} |-> JNull])
      [] content = C_BAD_FIELD -> JDict([skills |-> JStr("tla")])
      [] content = C_ARRAY -> JList(<<JStr("Ann")>>)
      [] content = C_STRING -> JStr("Ann")
      [] content = C_NUMBER -> JNum(7)
      [] content = C_NULL -> JNull
      [] OTHER -> JError

\* dict.get(key, default)
Get(v, key, default) == IF key \in DOMAIN v.d THEN v.d[key] ELSE default

IsStrOrNull(v) == v.kind \in {"str", "null"}
IsStrList(v) == v.kind = "list" /\ \A i \in 1..Len(v.items) : v.items[i].kind = "str"

\* a structured record of the six-field schema: an object whose fields, where
\* present, are strings (name, email, phone) or lists of strings
Conforms(v) ==
    /\ v.kind = "dict"
    /\ DOMAIN v.d \subseteq Fields
    /\ \A k \in DOMAIN v.d \cap ScalarFields : IsStrOrNull(v.d[k])
    /\ \A k \in DOMAIN v.d \cap ListFields : IsStrList(v.d[k])

(* ------------------------- requests and replies ------------------------ *)

\* request bodies: fileId absent, empty or an identifier; the MIME hint
FileIds == {Missing, "", "f1"}
MimeTypes == {None, PDF_MIME, DOCX_MIME, DOC_MIME, "text/plain"}
\* values of the X-API-Timeout header: absent, a number of seconds, a negative
\* number, "inf" (float() accepts it), not a number
TimeoutHeaders == {Missing, "5", "-1", "inf", "abc"}
Requests == [fileId : FileIds, mimeType : MimeTypes, timeout : TimeoutHeaders]

DEFAULT_TIMEOUT == 30

\* float("inf"): above every number of seconds
Infinity == 10 ^ 9

\* float(x) on a header value: IsFloat(x) where it does not raise ValueError
IsFloat(x) == x \in {"5", "-1", "inf"}
FloatOf(x) ==
    CASE x = "5" -> 5
      [] x = "-1" -> 0 - 1
      [] x = "inf" -> Infinity
      [] OTHER -> 0

\* float(request.headers.get("X-API-Timeout", 30.0)), where float() accepts
HeaderTimeout(header) == IF header = Missing THEN DEFAULT_TIMEOUT ELSE FloatOf(header)

\* exceptions: a type, a status (0 where the type has none) and a message
Exc(type, status, detail) == [type |-> type, status |-> status, detail |-> detail]
HTTPException(status, detail) == Exc("HTTPException", status, detail)

\* str(e): a library or built-in error prints its message, googleapiclient's
\* HttpError prints its status in it; an HTTPException prints "status: detail"
\* or, before Starlette gave it __str__, the empty string
StrOf(e) ==
    CASE e.type = "HTTPException" -> {<<>>, <<ToString(e.status), ": ">> \o e.detail}
      [] e.type = "HttpError" -> {<<"<HttpError ", ToString(e.status), " ">> \o e.detail \o <<">">>}
      [] OTHER -> {e.detail}

\* what the caller receives: an HTTP status with an error detail, or 200
\* with the result {fileId, parsedData}
ErrorResponse(status, detail) ==
    [status |-> status, detail |-> detail, fileId |-> None, parsedData |-> JNull]
OkResponse(file_id, data) ==
    [status |-> 200, detail |-> <<>>, fileId |-> file_id, parsedData |-> data]
NoResponse == ErrorResponse(0, <<>>)

\* the handler's  except Exception as e: raise HTTPException(500, str(e))
Caught(e) == {ErrorResponse(500, d) : d \in StrOf(e)}

\* outcomes of one next_chunk(): bytes arrive (done or not), or the blob
\* store answers 404 / 403, or the connection fails
ChunkResults ==
    {[kind |-> "chunk", data |-> c, done |-> d] : c \in SeqsUpTo(Byte, MaxLen), d \in BOOLEAN}
    \cup {[kind |-> k, data |-> <<>>, done |-> FALSE] : k \in {"not_found", "denied", "transport"}}

ChunkError(kind) ==
    CASE kind = "not_found" -> Exc("HttpError", 404, <<"File not found">>)
      [] kind = "denied" -> Exc("HttpError", 403, <<"The user does not have sufficient permissions">>)
      [] OTHER -> Exc("TransportError", 0, <<"Connection reset by peer">>)

\* replies of the inference endpoint: a timeout, or a status with a body.
\* shape says how far the body follows {choices: [{message: {content}}]}
Shapes == {"not_json", "not_object", "no_choices", "empty_choices", "no_message",
           "no_content", "content"}
Reply(kind, status, text, shape, content) ==
    [kind |-> kind, status |-> status, text |-> text, shape |-> shape, content |-> content]
GroqReplies ==
    {Reply("timeout", 0, "", "not_json", "")}
    \cup {Reply("response", st, "upstream says no", "not_json", "") : st \in {429, 503}}
    \cup {Reply("response", 200, "", sh, "") : sh \in Shapes \ {"content"}}
    \cup {Reply("response", 200, "", "content", c) : c \in Contents}

\* r.json() and data.get("choices", [{}])[0].get("message", {}).get("content"):
\* the exception raised on the way, if any
ContentError(reply) ==
    CASE reply.shape = "not_json" -> Exc("JSONDecodeError", 0, <<"Expecting value">>)
      [] reply.shape = "not_object" -> Exc("AttributeError", 0, <<"'list' object has no attribute 'get'">>)
      [] reply.shape = "empty_choices" -> Exc("IndexError", 0, <<"list index out of range">>)
      [] reply.shape = "content" /\ JsonLoads(reply.content) = JError ->
             Exc("JSONDecodeError", 0, <<"Expecting value">>)
      [] reply.shape = "content" -> Exc("", 0, <<>>)
      [] OTHER -> Exc("TypeError", 0, <<"the JSON object must be str, bytes or bytearray, not NoneType">>)

\* call_groq_api that degrades to a raw-text record when the content is
\* missing or is no JSON
call_groq_api_Degrade(reply) ==
    IF reply.kind = "timeout"
    THEN [ok |-> FALSE, exc |-> Exc("ReadTimeout", 0, <<>>), value |-> JNull]
    ELSE IF reply.status # 200
    THEN [ok |-> FALSE, exc |-> HTTPException(reply.status, <<reply.text>>), value |-> JNull]
    ELSE IF ContentError(reply).type # ""
    THEN [ok |-> TRUE, exc |-> Exc("", 0, <<>>), value |-> JDict([raw |-> JStr(reply.content)])]
    ELSE [ok |-> TRUE, exc |-> Exc("", 0, <<>>), value |-> JsonLoads(reply.content)]

\* what call_groq_api does with a reply: raises (ok = FALSE, exc) or returns
\* json.loads(content) (ok = TRUE, value)
call_groq_api(reply) ==
    IF reply.kind = "timeout"
    THEN [ok |-> FALSE, exc |-> Exc("ReadTimeout", 0, <<>>), value |-> JNull]
    ELSE IF reply.status # 200
    THEN [ok |-> FALSE, exc |-> HTTPException(reply.status, <<reply.text>>), value |-> JNull]
    ELSE IF ContentError(reply).type # ""
    THEN [ok |-> FALSE, exc |-> ContentError(reply), value |-> JNull]
    ELSE [ok |-> TRUE, exc |-> Exc("", 0, <<>>), value |-> JsonLoads(reply.content)]

\* RowOf with the arguments for email and phone in each other's place
RowOf_Swapped(file_id, v) ==
    [file_id |-> file_id,
     name |-> Get(v, "name", JNull), email |-> Get(v, "phone", JNull),
     phone |-> Get(v, "email", JNull),
     skills |-> Get(v, "skills", JList(<<>>)),
     experience |-> Get(v, "experience", JList(<<>>)),
     education |-> Get(v, "education", JList(<<>>))]

\* the arguments of the INSERT: parsed.get(...) for the six columns
RowOf(file_id, v) ==
    [file_id |-> file_id,
     name |-> Get(v, "name", JNull), email |-> Get(v, "email", JNull),
     phone |-> Get(v, "phone", JNull),
     skills |-> Get(v, "skills", JList(<<>>)),
     experience |-> Get(v, "experience", JList(<<>>)),
     education |-> Get(v, "education", JList(<<>>))]

\* the driver encodes TEXT from a string or NULL and TEXT[] from a list of strings
RowEncodes(row) ==
    /\ \A k \in ScalarFields : IsStrOrNull(row[k])
    /\ \A k \in ListFields : IsStrList(row[k])

(* ------------------------------- state --------------------------------- *)

VARIABLES
    app,          \* "init", "serving" or "failed": the process around the handlers
    DRIVE_SERVICE, \* the global DRIVE_SERVICE, built when the module is loaded
    db_pool,      \* the global db_pool: None or "pool"
    rows,         \* the resumes table: the inserted rows in order
    current,      \* the run whose code the event loop is executing, 0 if none
    pc,           \* per run: the line of parse_resume it is at
    req,          \* per run: the request (fileId, mimeType, X-API-Timeout)
    api_timeout,  \* per run: the local api_timeout
    fh,           \* per run: the download buffer
    file_bytes,   \* per run: the local file_bytes
    cv_text,      \* per run: the local cv_text
    parsed,       \* per run: the local parsed
    payload,      \* per run: the user content of the POST it sent
    response,     \* per run: what the caller received
    calls,        \* per run: how many external calls of each kind it issued
    stages,       \* per run: the stages it started, in order
    blob,         \* per run: the kind of the last answer of the blob store
    groq,         \* per run: the reply of the inference endpoint it received
    log           \* per run: the bytes the transfer delivered, in order of arrival,
                  \* whether it reported completion, and the extractor branch taken

shared == <<app, DRIVE_SERVICE, db_pool, rows>>
locals == <<req, api_timeout, fh, file_bytes, cv_text, parsed>>
history == <<payload, calls, stages, blob, groq, log>>
vars == <<app, DRIVE_SERVICE, db_pool, rows, current, pc, req, api_timeout, fh, file_bytes,
          cv_text, parsed, payload, response, calls, stages, blob, groq, log>>

NoRequest == [fileId |-> Missing, mimeType |-> None, timeout |-> Missing]
NoReply == [kind |-> "none", status |-> 0, text |-> "", shape |-> "not_json", content |-> ""]
NoCalls == [downloads |-> 0, posts |-> 0, acquires |-> 0, inserts |-> 0, stored |-> 0]
Unset == <<None>>
NoLog == [arrived |-> <<>>, complete |-> FALSE, taken |-> "none"]

Init ==
    /\ app = "init"
    /\ DRIVE_SERVICE = "drive"
    /\ db_pool = None
    /\ rows = <<>>
    /\ current = 0
    /\ pc = [r \in Runs |-> "idle"]
    /\ req = [r \in Runs |-> NoRequest]
    /\ api_timeout = [r \in Runs |-> 0]
    /\ fh = [r \in Runs |-> <<>>]
    /\ file_bytes = [r \in Runs |-> <<>>]
    /\ cv_text = [r \in Runs |-> Unset]
    /\ parsed = [r \in Runs |-> JNull]
    /\ payload = [r \in Runs |-> Unset]
    /\ response = [r \in Runs |-> NoResponse]
    /\ calls = [r \in Runs |-> NoCalls]
    /\ stages = [r \in Runs |-> <<>>]
    /\ blob = [r \in Runs |-> "none"]
    /\ groq = [r \in Runs |-> NoReply]
    /\ log = [r \in Runs |-> NoLog]

(* ------------------------------ startup -------------------------------- *)

\* on_startup -> init_db: the pool is created and assigned, or create_pool
\* raises and the process does not serve
on_startup(ok) ==
    /\ app = "init"
    /\ IF ok THEN db_pool' = "pool" /\ app' = "serving"
             ELSE db_pool' = db_pool /\ app' = "failed"
    /\ UNCHANGED <<DRIVE_SERVICE, rows, current, pc, locals, response, history>>

\* the application is served without its startup event (lifespan off, a test
\* client used without its context): the handlers run with db_pool unset
ServeWithoutStartup ==
    /\ app = "init"
    /\ app' = "serving"
    /\ UNCHANGED <<DRIVE_SERVICE, db_pool, rows, current, pc, locals, response, history>>

(* --------------------------- parse_resume ------------------------------ *)

\* the run ends with `resp` for the caller and leaves the event loop
Finish(r, resp) ==
    /\ response' = [response EXCEPT ![r] = resp]
    /\ pc' = [pc EXCEPT ![r] = "done"]
    /\ current' = 0

\* the run goes on at line `line`, still executing
Goto(r, line) ==
    /\ pc' = [pc EXCEPT ![r] = line]
    /\ current' = r
    /\ UNCHANGED response

\* the run suspends in an await, to resume at `line`
Await(r, line) ==
    /\ pc' = [pc EXCEPT ![r] = line]
    /\ current' = 0
    /\ UNCHANGED response

Start(r, stage) == stages' = [stages EXCEPT ![r] = Append(@, stage)]

\* POST /parse arrives: the body is validated against ParseRequest (fileId
\* is a required string), then parse_resume is entered
Receive(r, request) ==
    /\ app = "serving" /\ current = 0 /\ pc[r] = "idle"
    /\ req' = [req EXCEPT ![r] = request]
    /\ IF request.fileId = Missing
       THEN Finish(r, ErrorResponse(422, <<"fileId: field required">>))
       ELSE Goto(r, "L138")
    /\ UNCHANGED <<shared, api_timeout, fh, file_bytes, cv_text, parsed, history>>

\* CheckFileId without the test of file_id
CheckFileId_NoCheck(r) ==
    /\ current = r /\ pc[r] = "L138"
    /\ Goto(r, "L142")
    /\ UNCHANGED <<shared, locals, history>>

\* if not file_id: raise HTTPException(status_code=400, ...)
CheckFileId(r) ==
    /\ current = r /\ pc[r] = "L138"
    /\ IF req[r].fileId = ""
       THEN Finish(r, ErrorResponse(400, <<"fileId required">>))
       ELSE Goto(r, "L142")
    /\ UNCHANGED <<shared, locals, history>>

\* api_timeout = float(request.headers.get("X-API-Timeout", 30.0)): outside
\* the try, so a ValueError is the server's plain 500
ReadTimeout(r) ==
    /\ current = r /\ pc[r] = "L142"
    /\ IF req[r].timeout = Missing \/ IsFloat(req[r].timeout)
       THEN /\ api_timeout' = [api_timeout EXCEPT ![r] = HeaderTimeout(req[r].timeout)]
            /\ Goto(r, "L146")
       ELSE /\ UNCHANGED api_timeout
            /\ Finish(r, ErrorResponse(500, <<"Internal Server Error">>))
    /\ UNCHANGED <<shared, req, fh, file_bytes, cv_text, parsed, history>>

\* get_media(fileId), fh = io.BytesIO(), MediaIoBaseDownload(fh, ...), done = False
StartDownload(r) ==
    /\ current = r /\ pc[r] = "L146"
    /\ fh' = [fh EXCEPT ![r] = <<>>]
    /\ calls' = [calls EXCEPT ![r].downloads = @ + 1]
    /\ Start(r, "Retrieval")
    /\ Goto(r, "L151")
    /\ UNCHANGED <<shared, req, api_timeout, file_bytes, cv_text, parsed, payload, blob, groq, log>>

\* while not done: status, done = downloader.next_chunk()   (a blocking call).
\* A chunk may be empty, so a transfer that never completes is the step that
\* delivers nothing and leaves the run in the loop.
NextChunk(r, res) ==
    /\ current = r /\ pc[r] = "L151"
    /\ Len(fh[r]) + Len(res.data) <= MaxLen
    /\ blob' = [blob EXCEPT ![r] = res.kind]
    /\ log' = [log EXCEPT ![r].arrived = @ \o res.data, ![r].complete = res.done]
    /\ IF res.kind = "chunk"
       THEN /\ fh' = [fh EXCEPT ![r] = @ \o res.data]
            /\ Goto(r, IF res.done THEN "L152" ELSE "L151")
       ELSE /\ UNCHANGED fh
            /\ \E resp \in Caught(ChunkError(res.kind)) : Finish(r, resp)
    /\ UNCHANGED <<shared, req, api_timeout, file_bytes, cv_text, parsed, payload, calls, stages, groq>>

\* ReadFile without the seek(0): the read starts where the writes ended
ReadFile_NoSeek(r) ==
    /\ current = r /\ pc[r] = "L152"
    /\ file_bytes' = [file_bytes EXCEPT ![r] = <<>>]
    /\ Goto(r, "L155")
    /\ UNCHANGED <<shared, req, api_timeout, fh, cv_text, parsed, history>>

\* fh.seek(0); file_bytes = fh.read()
ReadFile(r) ==
    /\ current = r /\ pc[r] = "L152"
    /\ file_bytes' = [file_bytes EXCEPT ![r] = fh[r]]
    /\ Goto(r, "L155")
    /\ UNCHANGED <<shared, req, api_timeout, fh, cv_text, parsed, history>>

\* cv_text = extract_text_from_bytes(file_bytes, mime_type); a raise of the
\* parsing library reaches the handler's except
Extract(r, reading) ==
    /\ current = r /\ pc[r] = "L155"
    /\ Start(r, "Extraction")
    /\ log' = [log EXCEPT ![r].taken = Branch(req[r].mimeType)]
    /\ IF reading.ok
       THEN /\ cv_text' = [cv_text EXCEPT ![r] =
                    extract_text_from_bytes(file_bytes[r], req[r].mimeType, reading)]
            /\ Goto(r, "L156")
       ELSE /\ UNCHANGED cv_text
            /\ \E resp \in Caught(Exc("SyntaxError", 0, <<"File is not a valid document">>)) :
                   Finish(r, resp)
    /\ UNCHANGED <<shared, req, api_timeout, fh, file_bytes, parsed, payload, calls, blob, groq>>

\* not cv_text   (the strip() forgotten)
IsBlank_NoStrip(text) == text = <<>>

\* not cv_text.strip()
IsBlank(text) == Strip(text) = <<>>

\* CheckText that raises nothing
CheckText_NoRaise(r) ==
    /\ current = r /\ pc[r] = "L156"
    /\ Goto(r, "L159")
    /\ UNCHANGED <<shared, locals, history>>

\* if not cv_text.strip(): raise HTTPException(status_code=400, ...), raised
\* inside the try and so caught by  except Exception
CheckText(r) ==
    /\ current = r /\ pc[r] = "L156"
    /\ IF IsBlank(cv_text[r])
       THEN \E resp \in Caught(HTTPException(400, <<"Could not extract text from file">>)) :
                Finish(r, resp)
       ELSE Goto(r, "L159")
    /\ UNCHANGED <<shared, locals, history>>

\* parsed = await call_groq_api(cv_text, timeout=api_timeout): the POST is
\* sent with cv_text as the user content and the run waits for the reply
CallGroq(r) ==
    /\ current = r /\ pc[r] = "L159"
    /\ payload' = [payload EXCEPT ![r] = cv_text[r]]
    /\ calls' = [calls EXCEPT ![r].posts = @ + 1]
    /\ Start(r, "Inference")
    /\ Await(r, "L125")
    /\ UNCHANGED <<shared, locals, blob, groq, log>>

\* GroqReply that goes on waiting for the reply when the timeout elapses
GroqReply_KeepsWaiting(r, reply) ==
    /\ current = 0 /\ pc[r] = "L125"
    /\ reply.kind = "timeout" => api_timeout[r] < Infinity
    /\ groq' = [groq EXCEPT ![r] = reply]
    /\ IF call_groq_api(reply).ok
       THEN /\ parsed' = [parsed EXCEPT ![r] = call_groq_api(reply).value]
            /\ Goto(r, "L163")
       ELSE /\ UNCHANGED parsed
            /\ IF reply.kind = "timeout"
               THEN Await(r, "L125")
               ELSE \E resp \in Caught(call_groq_api(reply).exc) : Finish(r, resp)
    /\ UNCHANGED <<shared, req, api_timeout, fh, file_bytes, cv_text, payload, calls, stages, blob, log>>

\* GroqReply that sends the POST again when the endpoint answers with an
\* error status
GroqReply_Retry(r, reply) ==
    /\ current = 0 /\ pc[r] = "L125"
    /\ reply.kind = "timeout" => api_timeout[r] < Infinity
    /\ groq' = [groq EXCEPT ![r] = reply]
    /\ IF call_groq_api(reply).ok
       THEN /\ parsed' = [parsed EXCEPT ![r] = call_groq_api(reply).value]
            /\ Goto(r, "L163")
            /\ UNCHANGED calls
       ELSE /\ UNCHANGED parsed
            /\ IF reply.kind = "response" /\ reply.status # 200
               THEN Await(r, "L125") /\ calls' = [calls EXCEPT ![r].posts = @ + 1]
               ELSE (\E resp \in Caught(call_groq_api(reply).exc) : Finish(r, resp))
                    /\ UNCHANGED calls
    /\ UNCHANGED <<shared, req, api_timeout, fh, file_bytes, cv_text, payload, stages, blob, log>>

\* the reply arrives, or the timeout elapses (an infinite one never does),
\* and call_groq_api returns or raises
GroqReply(r, reply) ==
    /\ current = 0 /\ pc[r] = "L125"
    /\ reply.kind = "timeout" => api_timeout[r] < Infinity
    /\ groq' = [groq EXCEPT ![r] = reply]
    /\ IF call_groq_api(reply).ok
       THEN /\ parsed' = [parsed EXCEPT ![r] = call_groq_api(reply).value]
            /\ Goto(r, "L163")
       ELSE /\ UNCHANGED parsed
            /\ \E resp \in Caught(call_groq_api(reply).exc) : Finish(r, resp)
    /\ UNCHANGED <<shared, req, api_timeout, fh, file_bytes, cv_text, payload, calls, stages, blob, log>>

\* async with db_pool.acquire() as conn: with db_pool unset the attribute
\* lookup raises, and  except Exception: pass  discards it
Acquire(r) ==
    /\ current = r /\ pc[r] = "L163"
    /\ Start(r, "Persistence")
    /\ IF db_pool = None
       THEN Goto(r, "L179") /\ UNCHANGED calls
       ELSE Await(r, "L163_wait") /\ calls' = [calls EXCEPT ![r].acquires = @ + 1]
    /\ UNCHANGED <<shared, locals, payload, blob, groq, log>>

\* Acquired that resets the global pool when acquire raises
Acquired_DropsPool(r, ok) ==
    /\ current = 0 /\ pc[r] = "L163_wait"
    /\ Goto(r, IF ok THEN "L164" ELSE "L179")
    /\ db_pool' = IF ok THEN db_pool ELSE None
    /\ UNCHANGED <<app, DRIVE_SERVICE, rows, locals, history>>

\* the pool hands out a connection, or raises and the error is discarded
Acquired(r, ok) ==
    /\ current = 0 /\ pc[r] = "L163_wait"
    /\ Goto(r, IF ok THEN "L164" ELSE "L179")
    /\ UNCHANGED <<shared, locals, history>>

\* Insert that writes the defaults of the six columns into parsed
\* (setdefault in place of get)
Insert_SetsDefaults(r) ==
    /\ current = r /\ pc[r] = "L164"
    /\ IF parsed[r].kind = "dict"
       THEN /\ Await(r, "L164_wait")
            /\ calls' = [calls EXCEPT ![r].inserts = @ + 1]
            /\ parsed' = [parsed EXCEPT ![r] =
                    JDict([k \in Fields |-> RowOf(req[r].fileId, parsed[r])[k]])]
       ELSE Goto(r, "L179") /\ UNCHANGED <<calls, parsed>>
    /\ UNCHANGED <<shared, req, api_timeout, fh, file_bytes, cv_text, payload, stages, blob, groq, log>>

\* await conn.execute(INSERT ..., file_id, parsed.get("name"), ...): the
\* arguments are evaluated first, and parsed.get raises on anything but a dict
Insert(r) ==
    /\ current = r /\ pc[r] = "L164"
    /\ IF parsed[r].kind = "dict"
       THEN Await(r, "L164_wait") /\ calls' = [calls EXCEPT ![r].inserts = @ + 1]
       ELSE Goto(r, "L179") /\ UNCHANGED calls
    /\ UNCHANGED <<shared, locals, payload, stages, blob, groq, log>>

\* Inserted without the  except Exception: pass  around it: the error of
\* the INSERT reaches the handler's except
Inserted_Raises(r, ok) ==
    /\ current = 0 /\ pc[r] = "L164_wait"
    /\ ok => RowEncodes(RowOf(req[r].fileId, parsed[r]))
    /\ rows' = IF ok THEN Append(rows, RowOf(req[r].fileId, parsed[r])) ELSE rows
    /\ calls' = [calls EXCEPT ![r].stored = IF ok THEN @ + 1 ELSE @]
    /\ IF ok THEN Goto(r, "L179")
             ELSE \E resp \in Caught(Exc("PostgresError", 0, <<"connection is closed">>)) :
                      Finish(r, resp)
    /\ UNCHANGED <<app, db_pool, DRIVE_SERVICE, locals, payload, stages, blob, groq, log>>

\* the INSERT succeeds and the row is in the table, or it raises (encoding of
\* the arguments, connection, server) and the error is discarded
Inserted(r, ok) ==
    /\ current = 0 /\ pc[r] = "L164_wait"
    /\ ok => RowEncodes(RowOf(req[r].fileId, parsed[r]))
    /\ rows' = IF ok THEN Append(rows, RowOf(req[r].fileId, parsed[r])) ELSE rows
    /\ calls' = [calls EXCEPT ![r].stored = IF ok THEN @ + 1 ELSE @]
    /\ Goto(r, "L179")
    /\ UNCHANGED <<app, db_pool, DRIVE_SERVICE, locals, payload, stages, blob, groq, log>>

\* Return whose result cannot be sent: the run ends in a failure after the
\* persistence step
Return_Fails(r) ==
    /\ current = r /\ pc[r] = "L179"
    /\ Start(r, "Response")
    /\ Finish(r, ErrorResponse(500, <<"Internal Server Error">>))
    /\ UNCHANGED <<shared, locals, payload, calls, blob, groq, log>>

\* return {"fileId": file_id, "parsedData": parsed}
Return(r) ==
    /\ current = r /\ pc[r] = "L179"
    /\ Start(r, "Response")
    /\ Finish(r, OkResponse(req[r].fileId, parsed[r]))
    /\ UNCHANGED <<shared, locals, payload, calls, blob, groq, log>>

(* --------------------------- specification ----------------------------- *)

\* one step of run r
Step(r) ==
    \/ \E request \in Requests : Receive(r, request)
    \/ CheckFileId(r)
    \/ ReadTimeout(r)
    \/ StartDownload(r)
    \/ \E res \in ChunkResults : NextChunk(r, res)
    \/ ReadFile(r)
    \/ \E reading \in Readings(file_bytes[r], req[r].mimeType) : Extract(r, reading)
    \/ CheckText(r)
    \/ CallGroq(r)
    \/ \E reply \in GroqReplies : GroqReply(r, reply)
    \/ Acquire(r)
    \/ \E ok \in BOOLEAN : Acquired(r, ok)
    \/ Insert(r)
    \/ \E ok \in BOOLEAN : Inserted(r, ok)
    \/ Return(r)

Startup ==
    \/ \E ok \in BOOLEAN : on_startup(ok)
    \/ ServeWithoutStartup

\* the process starts and serves one request, with every input and every
\* reply of the blob store, the parsers, the inference endpoint and the database
Next == Startup \/ Step(1)

Spec == Init /\ [][Next]_vars

\* the inputs and replies of the runs of the concurrent specification: a
\* request with or without a fileId, a one-byte file in one chunk, a chunk
\* that delivers nothing and does not complete, a 404, and four replies of
\* the inference endpoint
ConcRequests == {[fileId |-> f, mimeType |-> None, timeout |-> Missing] : f \in {"", "f1"}}
ConcChunkResults ==
    {[kind |-> "chunk", data |-> <<"a">>, done |-> TRUE],
     [kind |-> "chunk", data |-> <<>>, done |-> FALSE],
     [kind |-> "not_found", data |-> <<>>, done |-> FALSE]}
ConcGroqReplies ==
    {Reply("timeout", 0, "", "not_json", ""),
     Reply("response", 503, "upstream says no", "not_json", ""),
     Reply("response", 200, "", "content", C_FULL),
     Reply("response", 200, "", "content", C_ARRAY)}

\* one step of run r among concurrent runs
ConcStep(r) ==
    \/ \E request \in ConcRequests : Receive(r, request)
    \/ CheckFileId(r)
    \/ ReadTimeout(r)
    \/ StartDownload(r)
    \/ \E res \in ConcChunkResults : NextChunk(r, res)
    \/ ReadFile(r)
    \/ \E reading \in Readings(file_bytes[r], req[r].mimeType) : Extract(r, reading)
    \/ CheckText(r)
    \/ CallGroq(r)
    \/ \E reply \in ConcGroqReplies : GroqReply(r, reply)
    \/ Acquire(r)
    \/ \E ok \in BOOLEAN : Acquired(r, ok)
    \/ Insert(r)
    \/ \E ok \in BOOLEAN : Inserted(r, ok)
    \/ Return(r)

\* the process starts and serves the requests of all runs on one event
\* loop: a run executes from one await to the next, and any run whose await
\* can complete goes on when the loop is free
NextConc == Startup \/ \E r \in Runs : ConcStep(r)

SpecConc == Init /\ [][NextConc]_vars

(* ------------------------------ properties ----------------------------- *)

Range(seq) == {seq[i] : i \in 1..Len(seq)}
IsPrefix(s, t) == Len(s) <= Len(t) /\ SubSeq(t, 1, Len(s)) = s

Done(r) == pc[r] = "done"
Succeeded(r) == Done(r) /\ response[r].status = 200
Failed(r) == Done(r) /\ response[r].status # 200
Received(r) == pc[r] # "idle"
ClientError(resp) == resp.status \in 400..499
ServerError(resp) == resp.status \in 500..599

StageOrder == <<"Retrieval", "Extraction", "Inference", "Persistence", "Response">>
Started(r, stage) == stage \in Range(stages[r])

\* C1: a request whose fileId is missing or empty fails with a 4xx outcome,
\* and its run issues no download, no inference call and no insert: it is
\* either still before the check of file_id or already finished.
C1_NoFileIdFailsBeforeAnyCall ==
    \A r \in Runs :
        (Received(r) /\ req[r].fileId \in {Missing, ""}) =>
            /\ calls[r] = NoCalls
            /\ stages[r] = <<>>
            /\ payload[r] = Unset
            /\ pc[r] \in {"L138", "done"}
            /\ Done(r) => ClientError(response[r])
            /\ (Done(r) /\ req[r].fileId = "") => response[r] = ErrorResponse(400, <<"fileId required">>)

C1_Witness ==
    \E r \in Runs : Done(r) /\ req[r].fileId = "" /\ response[r].status = 400 /\ app = "serving"

\* C2: once inference has succeeded the run cannot fail any more: whatever
\* the pool and the INSERT do (pool unset, acquire raises, INSERT raises), the
\* run ends with status 200 and {fileId, parsedData} of its request and of
\* the value inference returned.
C2_PersistenceNeverChangesOutcome ==
    \A r \in Runs :
        /\ pc[r] \in {"L163", "L163_wait", "L164", "L164_wait", "L179"} =>
               /\ response[r] = NoResponse
               /\ call_groq_api(groq[r]).ok /\ parsed[r] = call_groq_api(groq[r]).value
        /\ (Done(r) /\ Started(r, "Persistence")) =>
               response[r] = OkResponse(req[r].fileId, call_groq_api(groq[r]).value)

\* a run that succeeded although its INSERT raised, and one that succeeded
\* with the pool never created
C2_Witness ==
    \E r \in Runs :
        /\ Succeeded(r) /\ rows = <<>>
        /\ calls[r].inserts = 1 \/ db_pool = None

\* C3 (as claimed): a run whose extracted text is empty after trimming ends
\* with a 4xx outcome, which differs from the 5xx of a parse failure and of an
\* upstream or transport failure.
C3_NoTextIsClientError ==
    \A r \in Runs :
        (Done(r) /\ cv_text[r] # Unset /\ Strip(cv_text[r]) = <<>>) =>
            ClientError(response[r])

\* C4 (as claimed): when the inference endpoint answers with a non-success
\* status, the caller receives that status with the raw upstream body as the
\* detail, as call_groq_api raised it.
C4_UpstreamFailureUnchanged ==
    \A r \in Runs :
        (Done(r) /\ groq[r].kind = "response" /\ groq[r].status # 200) =>
            /\ response[r].status = groq[r].status
            /\ response[r].detail = <<groq[r].text>>

\* the statuses the caller can receive for a download that ended with `kind`
StatusesOf(kind) == {resp.status : resp \in Caught(ChunkError(kind))}

\* C5 (as claimed): a run whose download the blob store answered with 404
\* (with 403) ends with a not-found (an access-denied) outcome, told apart
\* from a transport failure: its status is none that a transport failure
\* during the download is reported with.
C5_NotFoundAndDeniedAreTyped ==
    \A r \in Runs :
        (Done(r) /\ blob[r] \in {"not_found", "denied"}) =>
            response[r].status \notin StatusesOf("transport")

\* C6: the stages of a run start in the order Retrieval, Extraction,
\* Inference, Persistence, Response, each only after the one before it has
\* completed successfully; a run that fails has started no stage after the
\* failing one, and never Persistence or Response.
C6_StagesInOrder ==
    \A r \in Runs :
        /\ IsPrefix(stages[r], StageOrder)
        /\ Started(r, "Extraction") => blob[r] = "chunk" /\ file_bytes[r] = fh[r]
        /\ Started(r, "Inference") => cv_text[r] # Unset /\ Strip(cv_text[r]) # <<>>
        /\ Started(r, "Persistence") =>
               groq[r].kind = "response" /\ groq[r].status = 200 /\ groq[r].shape = "content"
        /\ Started(r, "Response") => Succeeded(r)
        /\ Succeeded(r) => stages[r] = StageOrder
        /\ Failed(r) => Len(stages[r]) <= 3
        /\ (Failed(r) /\ blob[r] \in {"not_found", "denied", "transport"}) =>
               stages[r] = <<"Retrieval">>
        /\ (Failed(r) /\ Started(r, "Extraction") /\ (cv_text[r] = Unset \/ Strip(cv_text[r]) = <<>>)) =>
               stages[r] = <<"Retrieval", "Extraction">>
        /\ calls[r].posts > 0 <=> Started(r, "Inference")
        /\ calls[r].acquires + calls[r].inserts > 0 => Started(r, "Persistence")

C6_Witness ==
    \E r \in Runs : Succeeded(r) /\ stages[r] = StageOrder /\ Len(rows) = 1

\* C7: the inference endpoint is never sent a text that is empty after
\* trimming; a run whose extracted text is empty after trimming sends no POST,
\* attempts no insert and ends in failure.
C7_BlankTextIsTerminal ==
    \A r \in Runs :
        /\ payload[r] # Unset => Strip(payload[r]) # <<>>
        /\ (cv_text[r] # Unset /\ Strip(cv_text[r]) = <<>>) =>
               /\ calls[r].posts = 0 /\ calls[r].acquires = 0 /\ calls[r].inserts = 0
               /\ rows = <<>>
               /\ pc[r] \in {"L156", "done"}
               /\ Done(r) => response[r].status # 200

\* a run that failed on a text of whitespace only
C7_Witness ==
    \E r \in Runs : Failed(r) /\ cv_text[r] # Unset /\ cv_text[r] # <<>> /\ Strip(cv_text[r]) = <<>>

\* C8 (as claimed): the text sent to the inference endpoint has no leading
\* and no trailing whitespace, whichever branch of the extractor produced it.
C8_PayloadIsTrimmed ==
    \A r \in Runs : payload[r] # Unset => Strip(payload[r]) = payload[r]

\* C9 (as claimed): the parsedData of a successful run is a record of the
\* six-field schema.
C9_SuccessIsConformingRecord ==
    \A r \in Runs : Succeeded(r) => Conforms(response[r].parsedData)

\* the reply has status 200 and its message content is missing or is no JSON
MalformedContent(reply) ==
    /\ reply.kind = "response" /\ reply.status = 200
    /\ reply.shape = "content" =>
           reply.content \notin {C_FULL, C_PARTIAL, C_EMPTY_OBJECT, C_BAD_FIELD, C_ARRAY,
                                 C_STRING, C_NUMBER, C_NULL}

\* C10: a reply with status 200 whose message content is missing or is no
\* JSON fails the run: the caller gets an error status, no record (neither
\* the parsed one nor a raw-text one), and the run attempts no insert.
C10_MalformedContentFailsRun ==
    \A r \in Runs :
        MalformedContent(groq[r]) =>
            /\ Failed(r) /\ ServerError(response[r])
            /\ response[r].parsedData = JNull /\ response[r].fileId = None
            /\ parsed[r] = JNull
            /\ ~Started(r, "Persistence")
            /\ calls[r].acquires = 0 /\ calls[r].inserts = 0 /\ rows = <<>>

C10_Witness ==
    \E r \in Runs : Failed(r) /\ groq[r].status = 200 /\ groq[r].shape = "content" /\ groq[r].content = C_TEXT

\* the reply of the inference endpoint with which call_groq_api returns
InferenceSucceeded(r) ==
    /\ groq[r].kind = "response" /\ groq[r].status = 200 /\ groq[r].shape = "content"
    /\ groq[r].content \in {C_FULL, C_PARTIAL, C_EMPTY_OBJECT, C_BAD_FIELD, C_ARRAY,
                            C_STRING, C_NUMBER, C_NULL}

\* C11: a run stores at most one row, and only after its inference call has
\* returned; a run that ended in failure has stored none; every row of the
\* table was stored by a run, and no step removes or changes a row that is
\* in the table.
C11_OneRowAfterInference ==
    /\ [](\A r \in Runs :
             /\ calls[r].stored <= 1 /\ calls[r].stored <= calls[r].inserts
             /\ calls[r].inserts > 0 => InferenceSucceeded(r)
             /\ Failed(r) => calls[r].stored = 0)
    /\ [](Len(rows) <= Cardinality({r \in Runs : calls[r].stored = 1}))
    /\ [][IsPrefix(rows, rows')]_vars

C11_Witness ==
    \E r \in Runs : Succeeded(r) /\ calls[r].stored = 1 /\ Len(rows) = 1

\* C12: whatever fails, a run issues at most one media-download request, at
\* most one POST to the inference endpoint, at most one acquire and at most
\* one INSERT.
C12_NoRetry ==
    \A r \in Runs :
        /\ calls[r].downloads <= 1
        /\ calls[r].posts <= 1
        /\ calls[r].acquires <= 1
        /\ calls[r].inserts <= 1

\* a run that failed on an error status of the inference endpoint, after its
\* one POST
C12_Witness ==
    \E r \in Runs : Failed(r) /\ groq[r].status = 503 /\ calls[r].posts = 1 /\ calls[r].downloads = 1

\* C13 (as claimed): the timeout of the inference call is the default of 30
\* seconds when the caller supplies none, and for every value the caller
\* supplies it lies within fixed bounds: at the least it is positive and
\* finite.
C13_TimeoutBoundedAndDefaulted ==
    \A r \in Runs :
        payload[r] # Unset =>
            /\ req[r].timeout = Missing => api_timeout[r] = 30
            /\ api_timeout[r] > 0 /\ api_timeout[r] < Infinity

\* C14: the extractor's branch is decided by the MIME hint alone, in the
\* order PDF, Word document, plain text: the PDF type takes the PDF parser,
\* either Word type the paragraph parser, an absent or any other hint the
\* permissive decode, whatever the bytes are; the decode raises nothing and
\* gives the bytes without the invalid ones.
C14_DispatchByHint ==
    \A r \in Runs :
        log[r].taken # "none" =>
            /\ log[r].taken \in {"pdf", "docx", "plain"}
            /\ log[r].taken = "pdf" <=> req[r].mimeType = PDF_MIME
            /\ log[r].taken = "docx" <=> req[r].mimeType \in {DOCX_MIME, DOC_MIME}
            /\ log[r].taken = "plain" <=> req[r].mimeType \notin {PDF_MIME, DOCX_MIME, DOC_MIME}
            /\ log[r].taken = "plain" =>
                   /\ cv_text[r] # Unset
                   /\ cv_text[r] = SelectSeq(file_bytes[r], LAMBDA b : b # BadByte)
            /\ (log[r].taken # "plain" /\ cv_text[r] # Unset) => Strip(cv_text[r]) = cv_text[r]

\* the Word parser taken for application/msword, and the decode taken for an
\* unknown hint on bytes holding an invalid one
C14_Witness ==
    \E r \in Runs :
        \/ log[r].taken = "docx" /\ req[r].mimeType = DOC_MIME /\ cv_text[r] = <<"a">>
        \/ log[r].taken = "plain" /\ req[r].mimeType = "text/plain"
               /\ file_bytes[r] = <<BadByte, "a">> /\ cv_text[r] = <<"a">>

\* C16: when the timeout elapses while the inference call is outstanding,
\* the run ends at once in a failure reported to the caller: it waits no
\* more, sends no second POST, returns no record and attempts no insert.
C16_TimeoutFailsRun ==
    \A r \in Runs :
        groq[r].kind = "timeout" =>
            /\ Failed(r) /\ ServerError(response[r])
            /\ response[r].parsedData = JNull /\ response[r].fileId = None
            /\ parsed[r] = JNull
            /\ calls[r].posts = 1
            /\ calls[r].acquires = 0 /\ calls[r].inserts = 0 /\ calls[r].stored = 0
            /\ ~Started(r, "Persistence")

C16_Witness ==
    \E r \in Runs : Failed(r) /\ groq[r].kind = "timeout" /\ api_timeout[r] = 5

\* field k of a structured record: a field the service omitted is the empty
\* value of its type
FieldOf(v, k) ==
    IF k \in DOMAIN v.d THEN v.d[k]
    ELSE IF k \in ListFields THEN JList(<<>>) ELSE JNull

\* C17: the row a run stored holds the fileId of its request and, column by
\* column, the six fields of the record inference returned, which is the
\* record the caller receives; a field the service omitted is NULL (name,
\* email, phone) or the empty list (skills, experience, education).
C17_RowRoundTrip ==
    \A r \in Runs :
        calls[r].stored = 1 =>
            /\ parsed[r].kind = "dict"
            /\ \E i \in 1..Len(rows) :
                   /\ rows[i].file_id = req[r].fileId
                   /\ \A k \in Fields : rows[i][k] = FieldOf(parsed[r], k)
            /\ Succeeded(r) =>
                   \E i \in 1..Len(rows) :
                       /\ rows[i].file_id = response[r].fileId
                       /\ \A k \in Fields : rows[i][k] = FieldOf(response[r].parsedData, k)

\* a stored row of a full record, returned to the caller
C17_Witness ==
    \E r \in Runs :
        /\ Succeeded(r) /\ calls[r].stored = 1 /\ groq[r].content = C_FULL
        /\ rows[1].email = JStr("ann@x.org") /\ rows[1].phone = JStr("555")

InLoop(r) == pc[r] = "L151"
LeftLoop(r) == Started(r, "Retrieval") /\ ~InLoop(r)

\* C18: the run stays in the download loop as long as the transfer has not
\* reported completion and leaves it when it has; it leaves it earlier only
\* by a raise of next_chunk, which ends the run with nothing handed to the
\* extractor; the bytes the extractor gets are all the bytes that arrived, in
\* the order of arrival.
C18_LoopUntilComplete ==
    \A r \in Runs :
        /\ InLoop(r) => ~log[r].complete /\ log[r].arrived = fh[r]
        /\ (LeftLoop(r) /\ blob[r] = "chunk") => log[r].complete
        /\ (LeftLoop(r) /\ blob[r] # "chunk") =>
               Failed(r) /\ stages[r] = <<"Retrieval">> /\ log[r].taken = "none"
        /\ pc[r] = "L155" => file_bytes[r] = log[r].arrived
        /\ log[r].taken # "none" => log[r].complete /\ file_bytes[r] = log[r].arrived

\* a run whose extractor got two bytes
C18_Witness ==
    \E r \in Runs :
        /\ log[r].taken # "none" /\ log[r].complete
        /\ file_bytes[r] = <<" ", "a">> /\ log[r].arrived = <<" ", "a">>

\* C20: a run has an outcome exactly when it has ended, and the outcome is
\* either the result (status 200, the fileId of the request, the value
\* json.loads gave for the reply's content) or a failure (an error status, no
\* record), never both; the outcome and the request never change afterwards.
C20_ExactlyOneOutcome ==
    /\ [](\A r \in Runs :
             /\ Done(r) <=> response[r] # NoResponse
             /\ Done(r) => (response[r].status = 200) # (response[r].status \in 400..599)
             /\ Succeeded(r) =>
                    /\ response[r].fileId = req[r].fileId /\ req[r].fileId = "f1"
                    /\ InferenceSucceeded(r)
                    /\ response[r].parsedData = JsonLoads(groq[r].content)
                    /\ response[r].detail = <<>>
             /\ Failed(r) => response[r].fileId = None /\ response[r].parsedData = JNull)
    /\ [][\A r \in Runs :
             /\ Done(r) => response'[r] = response[r] /\ pc'[r] = "done"
             /\ Received(r) => req'[r] = req[r]]_vars

\* a successful run of a record with omitted fields, its row stored
C20_Witness ==
    \E r \in Runs : Succeeded(r) /\ groq[r].content = C_PARTIAL /\ calls[r].stored = 1

\* run q waits in an await (the reply of the inference endpoint, a
\* connection of the pool, the result of the INSERT)
Waiting(q) == pc[q] \in {"L125", "L163_wait", "L164_wait"}

\* C15 (as claimed): while a run is inside its download loop, every other
\* run that waits for the reply of an external call can take its next step.
C15_DownloadLoopSuspends ==
    \A r \in Runs : \A q \in Runs \ {r} :
        (InLoop(r) /\ Waiting(q)) => ENABLED ConcStep(q)

\* the outcomes the request of run r and the replies to its own calls allow
OutcomesOf(r) ==
    IF req[r].fileId = Missing THEN {ErrorResponse(422, <<"fileId: field required">>)}
    ELSE IF req[r].fileId = "" THEN {ErrorResponse(400, <<"fileId required">>)}
    ELSE IF req[r].timeout \in {"abc"} THEN {ErrorResponse(500, <<"Internal Server Error">>)}
    ELSE IF blob[r] # "chunk" THEN Caught(ChunkError(blob[r]))
    ELSE IF cv_text[r] = Unset THEN Caught(Exc("SyntaxError", 0, <<"File is not a valid document">>))
    ELSE IF Strip(cv_text[r]) = <<>>
         THEN Caught(HTTPException(400, <<"Could not extract text from file">>))
    ELSE IF ~call_groq_api(groq[r]).ok THEN Caught(call_groq_api(groq[r]).exc)
    ELSE {OkResponse(req[r].fileId, call_groq_api(groq[r]).value)}

\* C19: DRIVE_SERVICE is never assigned after the module is loaded and
\* db_pool only by the startup event, before any request is served; under
\* every interleaving of the runs, the outcome of a run is one that its own
\* request and the replies to its own calls allow, whatever the other runs,
\* the pool and the table are.
C19_SharedHandlesReadOnly ==
    /\ [][/\ DRIVE_SERVICE' = DRIVE_SERVICE
          /\ db_pool' # db_pool => (app = "init" /\ \A r \in Runs : pc[r] = "idle")]_vars
    /\ [](app # "init" => (db_pool = None \/ db_pool = "pool") /\ DRIVE_SERVICE = "drive")
    /\ [](\A r \in Runs : Done(r) => response[r] \in OutcomesOf(r))

\* two runs ended, one in success and one in failure, one of them having
\* been refused a connection by the pool
C19_Witness ==
    \E r \in Runs : \E q \in Runs \ {r} :
        /\ Succeeded(r) /\ Failed(q) /\ db_pool = "pool"
        /\ calls[r].acquires = 1 /\ calls[r].inserts = 0 /\ parsed[r].kind = "dict"

====
